---- MODULE Spec2Model ----
(***************************************************************************)
(* A model of the processing core of PDF2txt (src/converter.py):           *)
(* RateLimiter, ImageCache, PDFConverter.log, PDFConverter.analyze_image,  *)
(* PDFConverter._is_edhec_logo and PDFConverter.convert_pdf, and of the    *)
(* processing thread of its GUI (src/gui.py).  Time is counted in whole    *)
(* seconds.                                                                *)
(***************************************************************************)
EXTENDS Integers, Sequences, FiniteSets, TLC

(***************************************************************************)
(* Bounds of the model.                                                    *)
(***************************************************************************)
\* wait_if_needed is not called after this wall-clock time (RateLimiter alone)
MaxTime == 7
\* largest max_requests / time_window a stand-alone RateLimiter is built with
MaxN == 2
MaxW == 3
\* time.sleep(d) returns after d .. d + MaxOversleep seconds
MaxOversleep == 1

\* number of calls the caller of analyze_image / is_duplicate makes
MaxCalls == 3
\* largest retries / base_delay analyze_image is called with
MaxRetries == 3
MaxBaseDelay == 1
\* largest number of pages, and of images, of the converted document
MaxPages == 2
MaxDocImages == 2
\* the capacity the modelled cache is built with (ImageCache(cache_size=...))
CacheCapacity == 2
\* largest number of PDF files in the directory the GUI processes
MaxFiles == 2
\* largest number of times Start Processing is pressed
MaxThreads == 2

\* def analyze_image(self, image_data, retries=3, base_delay=5)
DefaultRetries == 3
DefaultBaseDelay == 5
\* RateLimiter(max_requests=9, time_window=60)
ConverterMaxRequests == 9
ConverterTimeWindow == 60
\* self.last_request_time = None
None == -1
\* self.min_delay = 1.0
min_delay == 1

VARIABLES
    clock,              \* datetime.now(), in seconds
    max_requests,       \* RateLimiter.max_requests
    time_window,        \* RateLimiter.time_window
    requests,           \* RateLimiter.requests (deque, oldest first)
    last_request_time,  \* RateLimiter.last_request_time
    returns,            \* history: the times at which wait_if_needed returned
    rl_sleeps,          \* history: the durations the last wait_if_needed call
                        \* passed to time.sleep, <<min-delay sleep, window sleep>>
    cache,              \* ImageCache.cache: a dict, kept in insertion order
    cache_size,         \* ImageCache.cache_size
    an_pc,              \* analyze_image: "idle", "attempt", "invoke", "done"
    an_img,             \* analyze_image: image_data
    an_retries,         \* analyze_image: retries
    an_base_delay,      \* analyze_image: base_delay
    an_attempt,         \* analyze_image: attempt (0-based, as in range(retries))
    an_result,          \* analyze_image: the value returned
    an_hist,            \* history of the current analyze_image call
    stored,             \* history: the hashes stored in the cache, in the order
                        \* of their insertion
    prev_call,          \* history: image and path of the analyze_image call
                        \* that returned last, with nothing in between
    failed_before,      \* history: hashes whose analysis has ended Failed
    calls,              \* history: number of calls made by the caller
    cfg_retries,        \* the retries the caller passes to analyze_image
    cfg_base_delay,     \* the base_delay the caller passes to analyze_image
    w_pc,               \* wait_if_needed run line by line: "idle", "min_delay",
                        \* "prune", "window", "record", "raised"
    w_now,              \* wait_if_needed: now
    w_sleeps,           \* history: the time.sleep calls of the current call,
                        \* each as <<"min_delay" or "window", duration>>
    log_pc,             \* PDFConverter.log run line by line: "idle", "logger",
                        \* "callback", "inner", "outer", "raised"
    log_callback,       \* PDFConverter.log_callback is set (not None)
    log_hist,           \* history of the log calls
    processing,         \* PDFConverterGUI.processing
    t_pc,               \* the processing thread of the GUI: "none", "loop",
                        \* "process_file", "converting", "finished"
    pdf_files,          \* _process_files: len(pdf_files)
    file_i,             \* _process_files: i, the number of the current file
    gui_hist,           \* history of the run of the GUI
    threads,            \* the threads start_processing has started, in the
                        \* order of their start, each with its position
    lf_pc,              \* _is_edhec_logo called on its own: "idle", "returned"
    lf_image,           \* _is_edhec_logo: image
    lf_result,          \* _is_edhec_logo: the value returned
    lf_log,             \* _is_edhec_logo: the records passed to self.log
    cv_pc,              \* convert_pdf: "idle", "next_page", "page",
                        \* "next_image", "analyzing", "write", "returned"
    output_text,        \* convert_pdf: output_text, the list of segments
    total_pages,        \* convert_pdf: total_pages
    page_num,           \* convert_pdf: page_num
    images,             \* convert_pdf: images, the list page.get_images()
                        \* returned, each entry as the bytes its xref holds
    img_idx,            \* convert_pdf: img_idx
    cv_result,          \* convert_pdf: the value returned
    file,               \* the content of the file at output_path
    cv_hist             \* history of the conversion

rlVars == <<clock, max_requests, time_window, requests, last_request_time,
            returns, rl_sleeps>>
cacheVars == <<cache, cache_size, stored>>
anVars == <<an_pc, an_img, an_retries, an_base_delay, an_attempt, an_result,
            an_hist, prev_call, failed_before>>

lfVars == <<lf_pc, lf_image, lf_result, lf_log>>
waitVars == <<w_pc, w_now, w_sleeps>>
logVars == <<log_pc, log_callback, log_hist>>
guiVars == <<processing, t_pc, pdf_files, file_i, gui_hist, threads>>

\* what no step of the RateLimiter, of the cache, of analyze_image or of
\* convert_pdf changes: the arguments of the caller and what belongs to the
\* callers
cfgVars == <<cfg_retries, cfg_base_delay, lfVars, waitVars, logVars, guiVars>>

cvVars == <<cv_pc, output_text, total_pages, page_num, images, img_idx,
            cv_result, file, cv_hist>>

vars == <<rlVars, cacheVars, anVars, calls, cfgVars, cvVars>>

(***************************************************************************)
(* RateLimiter.wait_if_needed                                              *)
(***************************************************************************)
\* lines 54-57: the duration of the minimum-delay sleep, 0 when there is none
MinDelaySleepNone(now, last) == 0
MinDelaySleep(now, last) ==
    IF last # None /\ now - last < min_delay
        THEN min_delay - (now - last)
        ELSE 0

\* lines 60-61: drop from the left every timestamp older than now - time_window
RECURSIVE Prune(_, _, _)
Prune(reqs, now, W) ==
    IF reqs # <<>> /\ Head(reqs) < now - W
        THEN Prune(Tail(reqs), now, W)
        ELSE reqs

\* lines 64-68: the duration of the window sleep, 0 when there is none
WindowSleep(reqs, now, N, W) ==
    IF Len(reqs) >= N
        THEN LET wait_time == Head(reqs) + W - now
             IN  IF wait_time > 0 THEN wait_time ELSE 0
        ELSE 0

\* time.sleep(d): the clock after a sleep of d seconds that overslept by o
AfterSleep(t, d, o) == IF d > 0 THEN t + d + o ELSE t

\* The whole call.  o1, o2: by how much each of the two sleeps oversleeps.
WaitIfNeeded(o1, o2) ==
    LET now    == clock
        s1     == MinDelaySleep(now, last_request_time)
        t1     == AfterSleep(now, s1, o1)
        pruned == Prune(requests, now, time_window)
        s2     == WindowSleep(pruned, now, max_requests, time_window)
        t2     == AfterSleep(t1, s2, o2)
    IN  /\ requests' = Append(pruned, now)
        /\ last_request_time' = t2
        /\ clock' = t2
        /\ returns' = Append(returns, t2)
        /\ rl_sleeps' = <<s1, s2>>
        /\ UNCHANGED <<max_requests, time_window>>

(***************************************************************************)
(* Python values returned by analyze_image: a string (its parts) or None.  *)
(***************************************************************************)
Str(parts) == [py |-> "str", s |-> parts]
PyNone == [py |-> "None", s |-> <<>>]
\* `if analysis:`: None and the empty string are false
TruthyAny(v) == TRUE
Truthy(v) == v.py = "str" /\ v.s # <<>> /\ v.s # <<"">>

(***************************************************************************)
(* Images.  image_data is the raw bytes; decoding them (Image.open, and     *)
(* the conversion to RGB) fails or gives an image with a size; its         *)
(* grayscale statistics are computed by the logo filter, which fails       *)
(* (stats_ok is false: image.convert('L') or numpy raises) or gives them.  *)
(***************************************************************************)
ImageData(bytes, decodable, stats_ok, width, height, avg, std) ==
    [bytes |-> bytes, decodable |-> decodable, stats_ok |-> stats_ok,
     width |-> width, height |-> height,
     avg_brightness |-> avg, std_brightness |-> std]

NoImage == ImageData("", FALSE, FALSE, 0, 0, 0, 0)

\* the images the callers pass: three ordinary ones, a logo, undecodable bytes
ImagePool ==
    { ImageData("chart", TRUE, TRUE, 800, 600, 120, 80),
      ImageData("photo", TRUE, TRUE, 640, 480, 90, 70),
      ImageData("graph", TRUE, TRUE, 400, 300, 180, 65),
      ImageData("logo", TRUE, TRUE, 100, 100, 255, 5),
      ImageData("corrupt", FALSE, FALSE, 0, 0, 0, 0) }

\* lines 137-139: Image.open(io.BytesIO(image_data)) and the conversion to RGB
\* succeed
DecodesAlways(image_data) == TRUE
Decodes(image_data) == image_data.decodable

\* hashlib.md5(image_data).hexdigest(): equal bytes, equal digest, and no
\* collision between different bytes
get_image_hash(image_data) == <<"md5", image_data.bytes>>

\* _is_edhec_logo, lines 192-216.  Lines 205-210, where width / height is
\* compared without dividing: 0.8 < w/h is 8h < 10w, w/h < 1.2 is 10w < 12h;
\* lines 214-216: whatever raises inside the filter makes it return False
IsEdhecLogoNonStrict(image) ==
    /\ image.stats_ok
    /\ 8 * image.height <= 10 * image.width
    /\ 10 * image.width <= 12 * image.height
    /\ image.avg_brightness >= 200
    /\ image.std_brightness <= 60
    /\ image.width <= 300
    /\ image.height <= 300
IsEdhecLogoFailsClosed(image) ==
    \/ ~image.stats_ok
    \/ /\ 8 * image.height < 10 * image.width
       /\ 10 * image.width < 12 * image.height
       /\ image.avg_brightness > 200
       /\ image.std_brightness < 60
       /\ image.width < 300
       /\ image.height < 300
IsEdhecLogo(image) ==
    IF ~image.stats_ok THEN FALSE
    ELSE /\ 8 * image.height < 10 * image.width
         /\ 10 * image.width < 12 * image.height
         /\ image.avg_brightness > 200
         /\ image.std_brightness < 60
         /\ image.width < 300
         /\ image.height < 300

\* line 215: what _is_edhec_logo passes to self.log
LogoFilterLog(image) ==
    IF ~image.stats_ok THEN <<<<"WARNING", "Error in logo detection">>>>
                       ELSE <<>>

(***************************************************************************)
(* ImageCache: the dict as the sequence of its items in insertion order.   *)
(***************************************************************************)
CacheKeys(c) == {c[i].k : i \in 1..Len(c)}
CacheHasNever(c, h) == FALSE
CacheHas(c, h) == h \in CacheKeys(c)
CacheGet(c, h) == c[CHOOSE i \in 1..Len(c) : c[i].k = h].v
\* c[h] = v: a new key goes last, a key already there keeps its place
CacheSet(c, h, v) ==
    IF CacheHas(c, h)
        THEN [i \in 1..Len(c) |-> IF c[i].k = h THEN [k |-> h, v |-> v] ELSE c[i]]
        ELSE Append(c, [k |-> h, v |-> v])

\* lines 34-36: the oldest entry is removed if the cache is full
EvictIfFullNever(c, size) == c
EvictIfFull(c, size) == IF Len(c) >= size THEN Tail(c) ELSE c

\* ImageCache.is_duplicate(image_data, analysis)
IsDuplicate(image_data, analysis) ==
    LET image_hash == get_image_hash(image_data)
    IN  IF CacheHas(cache, image_hash)
            THEN UNCHANGED <<cache, stored>>
            ELSE /\ cache' = Append(EvictIfFull(cache, cache_size),
                                    [k |-> image_hash, v |-> analysis])
                 /\ stored' = Append(stored, image_hash)

InitCache ==
    /\ cache = <<>>
    /\ cache_size = CacheCapacity
    /\ stored = <<>>

(***************************************************************************)
(* PDFConverter.analyze_image(image_data, retries, base_delay)             *)
(***************************************************************************)
\* what the history of one call records
NoHist ==
    [ path    |-> "",     \* how the call ended: "hit", "decode_error", "logo",
                          \* "ok", "failed"
      waits   |-> 0,      \* calls of rate_limiter.wait_if_needed
      invokes |-> 0,      \* calls of model.generate_content
      sleeps  |-> <<>>,   \* durations passed to time.sleep at line 181
      errors  |-> <<>>,   \* the error of each failed attempt
      log     |-> <<>>,   \* the records passed to self.log
      cache0  |-> <<>>,   \* the cache when the call began
      clock0  |-> 0,      \* the time when the call began
      rl0     |-> 0 ]     \* the number of wait_if_needed calls made before it

NoCall == [img |-> NoImage, path |-> "", result |-> PyNone]

InitAnalyze ==
    /\ an_pc = "idle"
    /\ an_img = NoImage
    /\ an_retries = 0
    /\ an_base_delay = 0
    /\ an_attempt = 0
    /\ an_result = PyNone
    /\ an_hist = NoHist
    /\ prev_call = NoCall
    /\ failed_before = {}

\* line 186-188: the string returned when the call fails
ErrorResultNone(retries, e) == PyNone
ErrorResult(retries, e) ==
    Str(<<"Error: ", "Failed to analyze image after ", ToString(retries),
          " attempts: ", e>>)

\* lines 142-144: a decorative image is skipped and nothing is stored for it
CacheAfterSkipMarker(c, h) == CacheSet(c, h, PyNone)
CacheAfterSkip(c, h) == c

\* lines 166-167: a successful analysis is assigned to the dict, no eviction
CacheAfterSuccess(c, h, analysis) == CacheSet(c, h, analysis)

\* lines 182-188: the error string is returned and nothing is stored for it
CacheAfterFailureStores(c, h, error) == CacheSet(c, h, error)
CacheAfterFailure(c, h, error) == c

\* line 171: the exponential backoff after the failure of attempt (0-based)
BackoffShifted(base_delay, attempt) == base_delay * (2 ^ (attempt + 1))
Backoff(base_delay, attempt) == base_delay * (2 ^ attempt)

\* lines 130-144 and, for bytes that do not decode, 185-188: the call up to
\* the retry loop
AnalyzeBegin(image_data, retries, base_delay) ==
    LET image_hash == get_image_hash(image_data)
        hist0 == [NoHist EXCEPT !.cache0 = cache, !.clock0 = clock,
                                !.rl0 = Len(returns)]
    IN  /\ an_pc = "idle"
        /\ an_img' = image_data
        /\ an_retries' = retries
        /\ an_base_delay' = base_delay
        /\ an_attempt' = 0
        /\ IF CacheHas(cache, image_hash) THEN
               /\ an_pc' = "done"
               /\ an_result' = CacheGet(cache, image_hash)
               /\ an_hist' = [hist0 EXCEPT !.path = "hit",
                      !.log = <<<<"INFO", "Using cached analysis for duplicate image">>>>]
               /\ cache' = cache
           ELSE IF ~Decodes(image_data) THEN
               /\ an_pc' = "done"
               /\ an_result' = ErrorResult(retries, "cannot identify image file")
               /\ an_hist' = [hist0 EXCEPT !.path = "decode_error",
                      !.log = <<<<"ERROR", "Failed to analyze image">>>>]
               /\ cache' = cache
           ELSE IF IsEdhecLogo(image_data) THEN
               /\ an_pc' = "done"
               /\ an_result' = PyNone
               /\ an_hist' = [hist0 EXCEPT !.path = "logo",
                      !.log = Append(LogoFilterLog(image_data),
                          <<"INFO", "EDHEC logo detected, skipping analysis">>)]
               /\ cache' = CacheAfterSkip(cache, image_hash)
           ELSE
               /\ an_pc' = "attempt"
               /\ an_result' = PyNone
               /\ an_hist' = [hist0 EXCEPT !.log = LogoFilterLog(image_data)]
               /\ cache' = cache
        /\ UNCHANGED <<rlVars, cache_size, stored, prev_call, failed_before>>

\* lines 157-159: the attempt is logged and the rate limiter is consulted
AnalyzeWaitFirstAttemptOnly ==
    /\ an_pc = "attempt"
    /\ IF an_attempt = 0 THEN WaitIfNeeded(0, 0) ELSE UNCHANGED rlVars
    /\ an_pc' = "invoke"
    /\ an_hist' = [an_hist EXCEPT !.waits = @ + 1,
                       !.log = Append(@, <<"INFO", "Analyzing image">>)]
    /\ UNCHANGED <<cacheVars, an_img, an_retries, an_base_delay, an_attempt,
                   an_result, prev_call, failed_before, calls, cfgVars, cvVars>>
AnalyzeWait ==
    /\ an_pc = "attempt"
    /\ WaitIfNeeded(0, 0)
    /\ an_pc' = "invoke"
    /\ an_hist' = [an_hist EXCEPT !.waits = @ + 1,
                       !.log = Append(@, <<"INFO", "Analyzing image">>)]
    /\ UNCHANGED <<cacheVars, an_img, an_retries, an_base_delay, an_attempt,
                   an_result, prev_call, failed_before, calls, cfgVars, cvVars>>

\* lines 161-183 and 185-188: the external call and what follows it.
\* outcome: "ok", or the error: "429" (a rate-limit error) or "other";
\* text: response.text
AnalyzeInvoke(outcome, text) ==
    LET image_hash == get_image_hash(an_img)
        hist1 == [an_hist EXCEPT !.invokes = @ + 1]
    IN  /\ an_pc = "invoke"
        /\ IF outcome = "ok" THEN
               LET analysis == IF text # "" THEN Str(<<text>>)
                                            ELSE Str(<<"No analysis generated">>)
               IN  /\ cache' = CacheAfterSuccess(cache, image_hash, analysis)
                   /\ stored' = IF CacheHas(cache, image_hash)
                                    THEN stored ELSE Append(stored, image_hash)
                   /\ an_result' = analysis
                   /\ an_pc' = "done"
                   /\ an_hist' = [hist1 EXCEPT !.path = "ok"]
                   /\ UNCHANGED <<clock, an_attempt, failed_before>>
           ELSE
               LET wait_time == Backoff(an_base_delay, an_attempt)
                   warned == [hist1 EXCEPT !.errors = Append(@, outcome),
                                 !.log = Append(@, <<"WARNING",
                                     IF outcome = "429" THEN "Rate limit exceeded"
                                                        ELSE "API error">>)]
               IN  IF an_attempt < an_retries - 1 THEN
                       /\ clock' = AfterSleep(clock, wait_time, 0)
                       /\ an_attempt' = an_attempt + 1
                       /\ an_pc' = "attempt"
                       /\ an_hist' = [warned EXCEPT !.sleeps = Append(@, wait_time),
                                         !.log = Append(@, <<"INFO", "Retrying">>)]
                       /\ UNCHANGED <<cache, stored, an_result, failed_before>>
                   ELSE
                       /\ an_pc' = "done"
                       /\ an_result' = ErrorResult(an_retries, outcome)
                       /\ an_hist' = [warned EXCEPT !.path = "failed",
                              !.log = Append(@, <<"ERROR", "Failed to analyze image">>)]
                       /\ cache' = CacheAfterFailure(cache, image_hash,
                                         ErrorResult(an_retries, outcome))
                       /\ failed_before' = failed_before \cup {image_hash}
                       /\ UNCHANGED <<clock, stored, an_attempt>>
        /\ UNCHANGED <<max_requests, time_window, requests, last_request_time,
                       returns, rl_sleeps, cache_size, an_img, an_retries,
                       an_base_delay, prev_call, calls, cfgVars, cvVars>>

\* the value is handed to the caller
AnalyzeEnd ==
    /\ an_pc = "done"
    /\ an_pc' = "idle"
    /\ prev_call' = [img |-> an_img, path |-> an_hist.path,
                      result |-> an_result]
    /\ an_img' = NoImage
    /\ an_retries' = 0
    /\ an_base_delay' = 0
    /\ an_attempt' = 0
    /\ an_result' = PyNone
    /\ an_hist' = NoHist
    /\ UNCHANGED failed_before

(***************************************************************************)
(* PDFConverter.convert_pdf(pdf_path, output_path)                         *)
(***************************************************************************)
\* an element of output_text; page and img are 0 and body is None where the
\* segment has none
Segment(kind, page, img, body) ==
    [kind |-> kind, page |-> page, img |-> img, body |-> body]

\* line 236: f"\n=== Page {page_num} ===\n"
PageHeader(p) == Segment("page_header", p, 0, PyNone)
\* line 237: the text of the page
PageText(p) == Segment("text", p, 0, Str(<<"text of page ", ToString(p)>>))
\* line 243: f"\n--- Images on Page {page_num} ---\n"
ImagesHeader(p) == Segment("images_header", p, 0, PyNone)
\* line 253: f"\n[Image {img_idx} Analysis]\n{analysis}\n"
ImageAnalysisOfFirst(p, i, analysis) == Segment("image_analysis", p, 1, analysis)
ImageAnalysis(p, i, analysis) == Segment("image_analysis", p, i, analysis)
\* line 258: f"\n[Error] Error processing image {img_idx} on page {page_num}..."
ImageError(p, i) == Segment("image_error", p, i, PyNone)
\* line 261: "\n" + "="*50 + "\n"
PageSeparator(p) == Segment("separator", p, 0, PyNone)
\* line 266: f"\n[Error] Error processing page {page_num}: ..."
PageError(p) == Segment("page_error", p, 0, PyNone)

\* no file at output_path
NoFile == <<Segment("no file", 0, 0, PyNone)>>

\* a file left at output_path by an earlier run
OldFile == <<Segment("old file", 0, 0, PyNone)>>

NoConvHist ==
    [ visited      |-> <<>>,  \* the pages whose processing began, in order
      failed_pages |-> {},    \* the pages whose processing raised
      pages        |-> {},    \* the pages processed: the page, the images it
                              \* carries, and what raised: "", "text" (line
                              \* 235) or "images" (line 240)
      extract_failed |-> {},  \* <<page, image>> whose extract_image raised
      analysed     |-> {},    \* the analyze_image calls that returned: page,
                              \* image, bytes, path and value returned
      doc_failure  |-> "",    \* what failed outside the per-page handler:
                              \* "not_found", "open", "load_page", "write"
      doc_images   |-> 0,     \* the images of the document seen so far
      file0        |-> NoFile ] \* the file at output_path before the call

\* f: the file at output_path before convert_pdf is called
InitConvertWith(f) ==
    /\ cv_pc = "idle"
    /\ output_text = <<>>
    /\ total_pages = 0
    /\ page_num = 0
    /\ images = <<>>
    /\ img_idx = 0
    /\ cv_result = FALSE
    /\ file = f
    /\ cv_hist = [NoConvHist EXCEPT !.file0 = f]

InitConvert == InitConvertWith(NoFile)

\* the images convert_pdf extracts from the document
ConvertPool == {d \in ImagePool : d.bytes \in {"chart", "logo", "corrupt"}}

\* lines 279-281: the outer handler logs and returns False
ReturnFalseRaises(why) ==
    /\ cv_pc' = "raised"
    /\ cv_result' = cv_result
    /\ cv_hist' = [cv_hist EXCEPT !.doc_failure = why]
ReturnFalseAsTrue(why) ==
    /\ cv_pc' = "returned"
    /\ cv_result' = TRUE
    /\ cv_hist' = [cv_hist EXCEPT !.doc_failure = why]
ReturnFalse(why) ==
    /\ cv_pc' = "returned"
    /\ cv_result' = FALSE
    /\ cv_hist' = [cv_hist EXCEPT !.doc_failure = why]

\* lines 220-228.  exists: os.path.exists(pdf_path); opens: fitz.open succeeds;
\* n: len(doc)
ConvertStart(exists, opens, n) ==
    /\ cv_pc = "idle"
    /\ IF ~exists THEN
           /\ ReturnFalse("not_found")
           /\ UNCHANGED <<output_text, total_pages>>
       ELSE IF ~opens THEN
           /\ ReturnFalse("open")
           /\ UNCHANGED <<output_text, total_pages>>
       ELSE
           /\ output_text' = <<>>
           /\ total_pages' = n
           /\ cv_pc' = "next_page"
           /\ UNCHANGED <<cv_result, cv_hist>>
    /\ UNCHANGED <<page_num, images, img_idx, file>>
    /\ UNCHANGED <<rlVars, cacheVars, anVars, calls, cfgVars>>

\* line 230: the loop over the pages takes the next page, or ends.
\* loads: the document yields the page
ConvertNextPage(loads) ==
    /\ cv_pc = "next_page"
    /\ IF page_num = total_pages THEN
           /\ cv_pc' = "write"
           /\ UNCHANGED <<page_num, cv_result, cv_hist>>
       ELSE IF ~loads THEN
           /\ ReturnFalse("load_page")
           /\ UNCHANGED page_num
       ELSE
           /\ page_num' = page_num + 1
           /\ cv_pc' = "page"
           /\ cv_hist' = [cv_hist EXCEPT !.visited = Append(@, page_num + 1)]
           /\ UNCHANGED cv_result
    /\ UNCHANGED <<output_text, total_pages, images, img_idx, file>>
    /\ UNCHANGED <<rlVars, cacheVars, anVars, calls, cfgVars>>

\* lines 263-267: a failure inside the page is logged, the error segment of
\* the page is appended and
\* the loop continues.  appended: what the page appended before it failed;
\* imgs: the images the page carries, none of which the loop has reached
PageRecord(imgs, failure) ==
    [page |-> page_num, images |-> imgs, failure |-> failure]
PageFailedHist(appended, imgs) ==
    [cv_hist EXCEPT
        !.failed_pages = @ \cup {page_num},
        !.pages = @ \cup {PageRecord(imgs, IF appended = <<>> THEN "text"
                                                              ELSE "images")},
        !.doc_images = @ + Len(imgs)]
PageFailedSilently(appended, imgs) ==
    /\ output_text' = output_text \o appended
    /\ cv_pc' = "next_page"
    /\ cv_hist' = PageFailedHist(appended, imgs)
    /\ UNCHANGED <<images, img_idx, cv_result>>
PageFailedAborts(appended, imgs) ==
    /\ output_text' = output_text \o appended
    /\ cv_pc' = "returned"
    /\ cv_result' = FALSE
    /\ cv_hist' = PageFailedHist(appended, imgs)
    /\ UNCHANGED <<images, img_idx>>
PageFailed(appended, imgs) ==
    /\ output_text' = (output_text \o appended) \o <<PageError(page_num)>>
    /\ cv_pc' = "next_page"
    /\ cv_hist' = PageFailedHist(appended, imgs)
    /\ UNCHANGED <<images, img_idx, cv_result>>

\* lines 232-243 (and 261 for a page without images).
\* text_ok: page.get_text() succeeds; images_ok: page.get_images() succeeds;
\* imgs: the images the page carries, which get_images() lists
ConvertPage(text_ok, images_ok, imgs) ==
    /\ cv_pc = "page"
    /\ IF ~text_ok THEN
           \* line 235 raises before the header is appended at line 236
           PageFailed(<<>>, imgs)
       ELSE IF ~images_ok THEN
           \* the header and the text are already appended
           PageFailed(<<PageHeader(page_num), PageText(page_num)>>, imgs)
       ELSE IF imgs # <<>> THEN
           /\ output_text' = output_text \o <<PageHeader(page_num),
                  PageText(page_num), ImagesHeader(page_num)>>
           /\ images' = imgs
           /\ img_idx' = 0
           /\ cv_pc' = "next_image"
           /\ cv_hist' = [cv_hist EXCEPT !.doc_images = @ + Len(imgs),
                              !.pages = @ \cup {PageRecord(imgs, "")}]
           /\ UNCHANGED cv_result
       ELSE
           /\ output_text' = output_text \o <<PageHeader(page_num),
                  PageText(page_num), PageSeparator(page_num)>>
           /\ images' = imgs
           /\ cv_pc' = "next_page"
           /\ cv_hist' = [cv_hist EXCEPT !.pages = @ \cup {PageRecord(imgs, "")}]
           /\ UNCHANGED <<img_idx, cv_result>>
    /\ UNCHANGED <<total_pages, page_num, file>>
    /\ UNCHANGED <<rlVars, cacheVars, anVars, calls, cfgVars>>

\* lines 245-251 and 255-258 (and 261 after the last image): the loop over
\* the images takes the next image and passes its bytes to analyze_image.
\* extracts: doc.extract_image(xref) succeeds
ConvertNextImage(extracts) ==
    /\ cv_pc = "next_image"
    /\ IF img_idx = Len(images) THEN
           /\ output_text' = Append(output_text, PageSeparator(page_num))
           /\ cv_pc' = "next_page"
           /\ UNCHANGED <<img_idx, anVars, cacheVars, rlVars, cv_hist>>
       ELSE IF ~extracts THEN
           /\ img_idx' = img_idx + 1
           /\ output_text' = Append(output_text, ImageError(page_num, img_idx + 1))
           /\ cv_pc' = "next_image"
           /\ cv_hist' = [cv_hist EXCEPT
                  !.extract_failed = @ \cup {<<page_num, img_idx + 1>>}]
           /\ UNCHANGED <<anVars, cacheVars, rlVars>>
       ELSE
           /\ img_idx' = img_idx + 1
           /\ AnalyzeBegin(images[img_idx + 1], DefaultRetries, DefaultBaseDelay)
           /\ cv_pc' = "analyzing"
           /\ UNCHANGED <<output_text, cv_hist>>
    /\ UNCHANGED <<total_pages, page_num, images, cv_result, file>>
    /\ UNCHANGED <<calls, cfgVars>>

\* lines 251-253: analyze_image has returned
ConvertImageResult ==
    /\ cv_pc = "analyzing"
    /\ an_pc = "done"
    /\ output_text' = IF Truthy(an_result)
                          THEN Append(output_text,
                                      ImageAnalysis(page_num, img_idx, an_result))
                          ELSE output_text
    /\ AnalyzeEnd
    /\ cv_pc' = "next_image"
    /\ cv_hist' = [cv_hist EXCEPT !.analysed = @ \cup
           {[page |-> page_num, img |-> img_idx, bytes |-> an_img.bytes,
             path |-> an_hist.path, result |-> an_result]}]
    /\ UNCHANGED <<total_pages, page_num, images, img_idx, cv_result, file>>
    /\ UNCHANGED <<rlVars, cacheVars, calls, cfgVars>>

\* lines 269-281.  written: os.makedirs and the writing of the file succeed
ConvertWrite(written) ==
    /\ cv_pc = "write"
    /\ IF written THEN
           /\ file' = output_text
           /\ cv_pc' = "returned"
           /\ cv_result' = TRUE
           /\ UNCHANGED cv_hist
       ELSE
           /\ ReturnFalse("write")
           /\ UNCHANGED file
    /\ UNCHANGED <<output_text, total_pages, page_num, images, img_idx>>
    /\ UNCHANGED <<rlVars, cacheVars, anVars, calls, cfgVars>>

(***************************************************************************)
(* A PDFConverter whose analyze_image and whose cache are called with any  *)
(* images, one call after the other.                                       *)
(***************************************************************************)
ResponseTexts == {"", "a bar chart"}
Outcomes == {"ok", "429", "other"}

\* no stand-alone call of the logo filter
InitLogoFilter ==
    /\ lf_pc = "idle"
    /\ lf_image = NoImage
    /\ lf_result = FALSE
    /\ lf_log = <<>>

\* no wait_if_needed under way
InitWait ==
    /\ w_pc = "idle"
    /\ w_now = 0
    /\ w_sleeps = <<>>

NoLogHist ==
    [ state0   |-> <<>>,  \* the state of the converter when the call began
      failures |-> {} ]   \* the lines at which a sink has raised so far

\* no log call under way; cb: log_callback is set
InitLog(cb) ==
    /\ log_pc = "idle"
    /\ log_callback = cb
    /\ log_hist = NoLogHist

\* the position of a conversion when Cancel was pressed; no such position
NoCancel == [file |-> 0, page |-> 0, img |-> 0, waits |-> 0]

NoGuiHist ==
    [ cancel       |-> NoCancel, \* where the conversion under way was when
                                 \* cancel_processing ran
      last_request |-> None,     \* the time of the last request of the
                                 \* converters of the files before this one
      described    |-> {} ]      \* the hashes of the images those converters
                                 \* got a description for

\* PDFConverterGUI.__init__, line 33: no processing thread
InitGui ==
    /\ processing = FALSE
    /\ t_pc = "none"
    /\ pdf_files = 0
    /\ file_i = 0
    /\ gui_hist = NoGuiHist
    /\ threads = <<>>

\* the callers at rest
InitCallers ==
    /\ InitLogoFilter
    /\ InitWait
    /\ InitLog(FALSE)
    /\ InitGui

InitConverter ==
    /\ InitCallers
    /\ clock = 0
    /\ max_requests = ConverterMaxRequests
    /\ time_window = ConverterTimeWindow
    /\ requests = <<>>
    /\ last_request_time = None
    /\ returns = <<>>
    /\ rl_sleeps = <<0, 0>>
    /\ InitCache
    /\ InitAnalyze
    /\ calls = 0
    /\ cfg_retries \in 1..MaxRetries
    /\ cfg_base_delay \in 1..MaxBaseDelay
    /\ InitConvert

CallAnalyze ==
    /\ calls < MaxCalls
    /\ calls' = calls + 1
    /\ \E image_data \in ImagePool :
           AnalyzeBegin(image_data, cfg_retries, cfg_base_delay)
    /\ UNCHANGED <<cfgVars, cvVars>>

CallIsDuplicate ==
    /\ an_pc = "idle"
    /\ calls < MaxCalls
    /\ calls' = calls + 1
    /\ \E image_data \in ImagePool, text \in ResponseTexts \ {""} :
           IsDuplicate(image_data, Str(<<text>>))
    /\ prev_call' = NoCall
    /\ UNCHANGED <<rlVars, cache_size, an_pc, an_img, an_retries, an_base_delay,
                   an_attempt, an_result, an_hist, failed_before, cfgVars,
                   cvVars>>

Invoke == \E outcome \in Outcomes, text \in ResponseTexts :
              AnalyzeInvoke(outcome, text)

Return ==
    /\ AnalyzeEnd
    /\ UNCHANGED <<rlVars, cacheVars, calls, cfgVars, cvVars>>

NextAnalyze == CallAnalyze \/ CallIsDuplicate \/ AnalyzeWait \/ Invoke \/ Return

SpecAnalyze == InitConverter /\ [][NextAnalyze]_vars

(***************************************************************************)
(* A RateLimiter on its own, called at arbitrary times.                    *)
(***************************************************************************)
InitRL ==
    /\ InitCallers
    /\ clock = 0
    /\ max_requests \in 1..MaxN
    /\ time_window \in 2..MaxW
    /\ requests = <<>>
    /\ last_request_time = None
    /\ returns = <<>>
    /\ rl_sleeps = <<0, 0>>
    /\ InitCache
    /\ InitAnalyze
    /\ calls = 0
    /\ cfg_retries = DefaultRetries
    /\ cfg_base_delay = DefaultBaseDelay
    /\ InitConvert

\* a caller invokes wait_if_needed
RLCall ==
    /\ clock <= MaxTime
    /\ \E o1, o2 \in 0..MaxOversleep : WaitIfNeeded(o1, o2)
    /\ UNCHANGED <<cacheVars, anVars, calls, cfgVars, cvVars>>

\* time passes between two calls
RLTick ==
    /\ clock < MaxTime
    /\ clock' = clock + 1
    /\ UNCHANGED <<max_requests, time_window, requests, last_request_time,
                   returns, rl_sleeps>>
    /\ UNCHANGED <<cacheVars, anVars, calls, cfgVars, cvVars>>

NextRL == RLCall \/ RLTick

SpecRL == InitRL /\ [][NextRL]_vars

(***************************************************************************)
(* A RateLimiter whose wait_if_needed is run line by line by the thread    *)
(* that called it.                                                         *)
(***************************************************************************)
\* line 60: the condition of the loop that clears the window
NeedsPop(reqs, now, W) == reqs # <<>> /\ Head(reqs) < now - W
\* line 61: self.requests.popleft()
PopLeftKeeps(reqs) == reqs
PopLeft(reqs) == Tail(reqs)

\* line 51
WaitEnter ==
    /\ w_pc = "idle"
    /\ clock <= MaxTime
    /\ w_now' = clock
    /\ w_sleeps' = <<>>
    /\ w_pc' = "min_delay"
    /\ UNCHANGED rlVars

\* lines 54-57; time.sleep raises on a negative duration.  o: the oversleep
WaitMinDelay(o) ==
    /\ w_pc = "min_delay"
    /\ LET d == MinDelaySleep(w_now, last_request_time)
       IN  IF d < 0 THEN
               /\ w_pc' = "raised"
               /\ UNCHANGED <<clock, w_sleeps>>
           ELSE
               /\ clock' = AfterSleep(clock, d, o)
               /\ w_sleeps' = IF d > 0 THEN Append(w_sleeps, <<"min_delay", d>>)
                                       ELSE w_sleeps
               /\ w_pc' = "prune"
    /\ UNCHANGED <<max_requests, time_window, requests, last_request_time,
                   returns, rl_sleeps, w_now>>

\* lines 60-61: one turn of the loop
WaitPrune ==
    /\ w_pc = "prune"
    /\ IF NeedsPop(requests, w_now, time_window)
           THEN /\ requests' = PopLeft(requests)
                /\ UNCHANGED w_pc
           ELSE /\ w_pc' = "window"
                /\ UNCHANGED requests
    /\ UNCHANGED <<clock, max_requests, time_window, last_request_time,
                   returns, rl_sleeps, w_now, w_sleeps>>

\* lines 64-68; self.requests[0] raises on an empty deque.  o: the oversleep
WaitWindow(o) ==
    /\ w_pc = "window"
    /\ IF Len(requests) >= max_requests /\ requests = <<>> THEN
           /\ w_pc' = "raised"
           /\ UNCHANGED <<clock, w_sleeps>>
       ELSE
           LET d == WindowSleep(requests, w_now, max_requests, time_window)
           IN  /\ clock' = AfterSleep(clock, d, o)
               /\ w_sleeps' = IF d > 0 THEN Append(w_sleeps, <<"window", d>>)
                                       ELSE w_sleeps
               /\ w_pc' = "record"
    /\ UNCHANGED <<max_requests, time_window, requests, last_request_time,
                   returns, rl_sleeps, w_now>>

\* lines 70-71, and the return
WaitRecord ==
    /\ w_pc = "record"
    /\ requests' = Append(requests, w_now)
    /\ last_request_time' = clock
    /\ returns' = Append(returns, clock)
    /\ w_pc' = "idle"
    /\ UNCHANGED <<clock, max_requests, time_window, rl_sleeps, w_now,
                   w_sleeps>>

\* what the steps of the call leave alone
WaitFrame ==
    UNCHANGED <<cacheVars, anVars, calls, cfg_retries, cfg_base_delay, lfVars,
                logVars, guiVars, cvVars>>

\* the steps of the thread inside wait_if_needed
WaitStep ==
    /\ \/ \E o \in 0..MaxOversleep : WaitMinDelay(o)
       \/ WaitPrune
       \/ \E o \in 0..MaxOversleep : WaitWindow(o)
       \/ WaitRecord
    /\ WaitFrame

\* a caller invokes wait_if_needed
WaitCall == WaitEnter /\ WaitFrame

\* time passes between two calls
WaitTick == w_pc = "idle" /\ RLTick

NextWait == WaitCall \/ WaitStep \/ WaitTick

\* the thread that called wait_if_needed goes on running it
SpecWait == InitRL /\ [][NextWait]_vars /\ WF_vars(WaitStep)

(***************************************************************************)
(* A PDFConverter that converts one document.                              *)
(***************************************************************************)
InitConversion ==
    /\ InitCallers
    /\ clock = 0
    /\ max_requests = ConverterMaxRequests
    /\ time_window = ConverterTimeWindow
    /\ requests = <<>>
    /\ last_request_time = None
    /\ returns = <<>>
    /\ rl_sleeps = <<0, 0>>
    /\ InitCache
    /\ InitAnalyze
    /\ calls = 0
    /\ cfg_retries = DefaultRetries
    /\ cfg_base_delay = DefaultBaseDelay
    /\ \E f \in {NoFile, OldFile} : InitConvertWith(f)

Start == \E exists, opens \in BOOLEAN, n \in 0..MaxPages :
             ConvertStart(exists, opens, n)

NextPage == \E loads \in BOOLEAN : ConvertNextPage(loads)

\* the lists of at most n images of a pool
ListsOf(pool, n) == UNION {[1..k -> pool] : k \in 0..n}
ImageLists(n) == ListsOf(ConvertPool, n)

Page == \E text_ok, images_ok \in BOOLEAN,
           imgs \in ImageLists(MaxDocImages - cv_hist.doc_images) :
            ConvertPage(text_ok, images_ok, imgs)

NextImage == \E extracts \in BOOLEAN : ConvertNextImage(extracts)

Write == \E written \in BOOLEAN : ConvertWrite(written)

NextConvert ==
    \/ Start \/ NextPage \/ Page \/ NextImage \/ AnalyzeWait \/ Invoke
    \/ ConvertImageResult \/ Write

SpecConvert == InitConversion /\ [][NextConvert]_vars

(***************************************************************************)
(* A PDFConverter that converts one document, with PDFConverter.log run    *)
(* line by line while its sinks, the logger and the callback, may raise.   *)
(* log is called between the steps of the conversion, which goes on when   *)
(* log has returned.                                                       *)
(***************************************************************************)
\* what a log call must leave as it is
ConverterState ==
    <<output_text, cache, requests, last_request_time, cv_pc, an_pc, page_num,
      img_idx, cv_result, file>>

\* the handler that catches what is raised at a line of log: line 113
\* ("logger") is inside the try of line 107, whose handler is at line 125
\* ("outer"); line 121 ("callback") is inside the try of line 120, whose
\* handler is at line 122 ("inner"); line 123 ("inner") is inside the try of
\* line 107 again
LogHandlerNone(at) == "raised"
LogHandler(at) ==
    CASE at = "logger"   -> "outer"
      [] at = "callback" -> "inner"
      [] at = "inner"    -> "outer"

\* lines 105-111: log is called
LogEnter ==
    /\ log_pc = "idle"
    /\ cv_pc \notin {"idle", "returned"}
    /\ log_pc' = "logger"
    /\ log_hist' = [log_hist EXCEPT !.state0 = ConverterState]
    /\ UNCHANGED log_callback

\* where a line of log that may raise goes on to.  raises: it raises;
\* next: the line that follows it
LogLine(at, raises, next) ==
    /\ log_pc = at
    /\ IF raises
           THEN /\ log_pc' = LogHandler(at)
                /\ log_hist' = [log_hist EXCEPT !.failures = @ \cup {at}]
           ELSE /\ log_pc' = next
                /\ UNCHANGED log_hist
    /\ UNCHANGED log_callback

\* lines 112-119: log_func(message), print, `if self.log_callback:`
LogLogger(raises) ==
    LogLine("logger", raises, IF log_callback THEN "callback" ELSE "idle")

\* line 121: self.log_callback(formatted_message)
LogCallback(raises) == LogLine("callback", raises, "idle")

\* lines 122-124: logger.error(...), print
LogInner(raises) == LogLine("inner", raises, "idle")

\* lines 125-126: print
LogOuter ==
    /\ log_pc = "outer"
    /\ log_pc' = "idle"
    /\ UNCHANGED <<log_callback, log_hist>>

\* what the steps of log leave alone
LogFrame ==
    UNCHANGED <<rlVars, cacheVars, anVars, calls, cfg_retries, cfg_base_delay,
                lfVars, waitVars, guiVars, cvVars>>

LogStep ==
    /\ \/ LogEnter
       \/ \E raises \in BOOLEAN : LogLogger(raises)
       \/ \E raises \in BOOLEAN : LogCallback(raises)
       \/ \E raises \in BOOLEAN : LogInner(raises)
       \/ LogOuter
    /\ LogFrame

\* the images of the documents converted here
LoggedPool == {d \in ImagePool : d.bytes = "chart"}

\* the steps of convert_pdf on documents whose pages and images can be read
\* and whose transcript can be written
PlainConvert ==
    \/ \E exists, opens \in BOOLEAN, n \in 0..MaxPages :
           ConvertStart(exists, opens, n)
    \/ ConvertNextPage(TRUE)
    \/ \E text_ok \in BOOLEAN,
          imgs \in ListsOf(LoggedPool, MaxDocImages - cv_hist.doc_images) :
           ConvertPage(text_ok, TRUE, imgs)
    \/ ConvertNextImage(TRUE)
    \/ AnalyzeWait
    \/ \E outcome \in {"ok", "other"} : AnalyzeInvoke(outcome, "a bar chart")
    \/ ConvertImageResult
    \/ ConvertWrite(TRUE)

\* the steps of convert_pdf, taken while no log call is under way
LoggedConvert == log_pc = "idle" /\ PlainConvert

InitLogged ==
    /\ InitLogoFilter
    /\ InitWait
    /\ InitGui
    /\ \E cb \in BOOLEAN : InitLog(cb)
    /\ clock = 0
    /\ max_requests = ConverterMaxRequests
    /\ time_window = ConverterTimeWindow
    /\ requests = <<>>
    /\ last_request_time = None
    /\ returns = <<>>
    /\ rl_sleeps = <<0, 0>>
    /\ InitCache
    /\ InitAnalyze
    /\ calls = 0
    /\ cfg_retries = DefaultRetries
    /\ cfg_base_delay = DefaultBaseDelay
    /\ InitConvert

NextLogged == LogStep \/ LoggedConvert

SpecLogged == InitLogged /\ [][NextLogged]_vars

(***************************************************************************)
(* The GUI (src/gui.py) processing the PDF files of a directory: Start is  *)
(* pressed once, Cancel at any time.                                       *)
(***************************************************************************)
\* what the steps of the GUI and of its thread leave alone
GuiFrame ==
    UNCHANGED <<calls, cfg_retries, cfg_base_delay, lfVars, waitVars, logVars,
                threads>>

ConverterVars == <<rlVars, cacheVars, anVars, cvVars>>

\* start_processing, lines 223-232, and _process_files up to line 271.
\* n: len(pdf_files)
GuiStart(n) ==
    /\ t_pc = "none"
    /\ processing' = TRUE
    /\ t_pc' = "loop"
    /\ pdf_files' = n
    /\ file_i' = 0
    /\ UNCHANGED <<gui_hist, ConverterVars>>
    /\ GuiFrame

\* cancel_processing, lines 294-297
GuiCancel ==
    /\ processing
    /\ processing' = FALSE
    /\ gui_hist' = [gui_hist EXCEPT !.cancel =
           IF t_pc = "converting" /\ cv_pc \notin {"idle", "returned"}
              /\ @ = NoCancel
               THEN [file |-> file_i, page |-> page_num,
                     img |-> Cardinality(cv_hist.analysed)
                             + Cardinality(cv_hist.extract_failed)
                             + (IF cv_pc = "analyzing" THEN 1 ELSE 0),
                     waits |-> Len(returns)]
               ELSE @]
    /\ UNCHANGED <<t_pc, pdf_files, file_i, ConverterVars>>
    /\ GuiFrame

\* _process_files, lines 273-292: one turn of the loop over the files, or its
\* end.  skip: the output file exists and is not to be overwritten
BatchNextFile(skip) ==
    /\ t_pc = "loop"
    /\ IF file_i = pdf_files THEN
           /\ processing' = FALSE
           /\ t_pc' = "finished"
           /\ UNCHANGED file_i
       ELSE IF ~processing THEN
           \* lines 274-276: break
           /\ file_i' = file_i + 1
           /\ processing' = FALSE
           /\ t_pc' = "finished"
       ELSE IF skip THEN
           /\ file_i' = file_i + 1
           /\ UNCHANGED <<processing, t_pc>>
       ELSE
           /\ file_i' = file_i + 1
           /\ t_pc' = "process_file"
           /\ UNCHANGED processing
    /\ UNCHANGED <<pdf_files, gui_hist, ConverterVars>>
    /\ GuiFrame

\* PDFConverter(...), lines 74-85: a converter with a RateLimiter and an
\* ImageCache of its own; the file at its output path is another file
NewConverter ==
    /\ requests' = <<>>
    /\ last_request_time' = None
    /\ returns' = <<>>
    /\ rl_sleeps' = <<0, 0>>
    /\ UNCHANGED <<clock, max_requests, time_window>>
    /\ cache' = <<>>
    /\ stored' = <<>>
    /\ UNCHANGED cache_size
    /\ an_pc' = "idle"
    /\ an_img' = NoImage
    /\ an_retries' = 0
    /\ an_base_delay' = 0
    /\ an_attempt' = 0
    /\ an_result' = PyNone
    /\ an_hist' = NoHist
    /\ prev_call' = NoCall
    /\ failed_before' = {}
    /\ cv_pc' = "idle"
    /\ output_text' = <<>>
    /\ total_pages' = 0
    /\ page_num' = 0
    /\ images' = <<>>
    /\ img_idx' = 0
    /\ cv_result' = FALSE
    /\ file' = NoFile
    /\ cv_hist' = NoConvHist

\* process_file, lines 196-207, up to the call of convert_pdf.
\* setup_ok: PDFConverter(...) does not raise
BatchProcessFile(setup_ok) ==
    /\ t_pc = "process_file"
    /\ IF ~processing \/ ~setup_ok THEN
           \* line 198, or the handler of lines 216-221: return False
           /\ t_pc' = "loop"
           /\ UNCHANGED <<gui_hist, ConverterVars>>
       ELSE
           /\ NewConverter
           /\ t_pc' = "converting"
           /\ gui_hist' = [gui_hist EXCEPT
                  !.last_request = IF returns # <<>>
                                       THEN returns[Len(returns)] ELSE @,
                  !.described = @ \cup CacheKeys(cache)]
    /\ UNCHANGED <<processing, pdf_files, file_i>>
    /\ GuiFrame

\* process_file, lines 207-214: convert_pdf has returned
BatchFileDone ==
    /\ t_pc = "converting"
    /\ cv_pc = "returned"
    /\ t_pc' = "loop"
    /\ UNCHANGED <<processing, pdf_files, file_i, gui_hist, ConverterVars>>
    /\ GuiFrame

\* the steps of convert_pdf inside process_file
BatchConvert == t_pc = "converting" /\ PlainConvert

Start1 == \E n \in 1..MaxFiles : GuiStart(n)
NextFile == \E skip \in BOOLEAN : BatchNextFile(skip)
ProcessFile == \E setup_ok \in BOOLEAN : BatchProcessFile(setup_ok)

InitBatch ==
    /\ InitCallers
    /\ clock = 0
    /\ max_requests = ConverterMaxRequests
    /\ time_window = ConverterTimeWindow
    /\ requests = <<>>
    /\ last_request_time = None
    /\ returns = <<>>
    /\ rl_sleeps = <<0, 0>>
    /\ InitCache
    /\ InitAnalyze
    /\ calls = 0
    /\ cfg_retries = DefaultRetries
    /\ cfg_base_delay = DefaultBaseDelay
    /\ InitConvert

NextBatch ==
    \/ Start1 \/ GuiCancel \/ NextFile \/ ProcessFile \/ BatchConvert
    \/ BatchFileDone

SpecBatch == InitBatch /\ [][NextBatch]_vars

(***************************************************************************)
(* The GUI with Start Processing pressed any number of times: every press  *)
(* starts a thread that runs _process_files.  So that several threads fit, *)
(* the conversion each of them runs is reduced to the calls of the         *)
(* external service it makes, one after the other.                         *)
(***************************************************************************)
\* a thread at line 234.  n: len(pdf_files)
NewThread(n) ==
    [ pc   |-> "loop",  \* "loop", "process_file", "converting", "invoke",
                        \* "finished"
      n    |-> n,       \* len(pdf_files)
      i    |-> 0,       \* the number of the current file
      left |-> 0 ]      \* the calls of the external service the conversion
                        \* under way has still to make

\* what the steps of these threads leave alone
ThreadsFrame ==
    UNCHANGED <<calls, cfg_retries, cfg_base_delay, lfVars, waitVars, logVars,
                t_pc, pdf_files, file_i, gui_hist, ConverterVars>>

\* start_processing, lines 223-232: the fields are filled in; nothing is
\* asked about a thread already running.  n: len(pdf_files)
StartProcessing(n) ==
    /\ Len(threads) < MaxThreads
    /\ processing' = TRUE
    /\ threads' = Append(threads, NewThread(n))
    /\ ThreadsFrame

\* cancel_processing, lines 294-297
CancelProcessing ==
    /\ processing' = FALSE
    /\ UNCHANGED threads
    /\ ThreadsFrame

\* _process_files, lines 273-292, in thread k: one turn of the loop over the
\* files, or its end.  skip: the output file exists and is not overwritten
ProcessFiles(k, skip) ==
    LET t == threads[k]
    IN  /\ t.pc = "loop"
        /\ IF t.i = t.n \/ ~processing THEN
               \* the loop has ended, or lines 274-276: break; line 291
               /\ processing' = FALSE
               /\ threads' = [threads EXCEPT ![k].pc = "finished"]
           ELSE IF skip THEN
               /\ threads' = [threads EXCEPT ![k].i = @ + 1]
               /\ UNCHANGED processing
           ELSE
               /\ threads' = [threads EXCEPT ![k].i = @ + 1,
                                             ![k].pc = "process_file"]
               /\ UNCHANGED processing
        /\ ThreadsFrame

\* process_file, lines 196-207, in thread k, up to the call of convert_pdf.
\* setup_ok: PDFConverter(...) does not raise; m: the calls of the external
\* service the conversion of the file makes
ProcessFileEnter(k, setup_ok, m) ==
    LET t == threads[k]
    IN  /\ t.pc = "process_file"
        /\ IF ~processing \/ ~setup_ok
               THEN threads' = [threads EXCEPT ![k].pc = "loop"]
               ELSE threads' = [threads EXCEPT ![k].pc = "converting",
                                               ![k].left = m]
        /\ UNCHANGED processing
        /\ ThreadsFrame

\* convert_pdf in thread k (converter.py, lines 218-281): it goes on to its
\* next call of the external service (line 161), or returns to process_file,
\* which returns to the loop (gui.py, lines 207-214)
ThreadConvert(k) ==
    LET t == threads[k]
    IN  /\ t.pc = "converting"
        /\ IF t.left > 0
               THEN threads' = [threads EXCEPT ![k].pc = "invoke",
                                               ![k].left = @ - 1]
               ELSE threads' = [threads EXCEPT ![k].pc = "loop"]
        /\ UNCHANGED processing
        /\ ThreadsFrame

\* the call of the external service made by thread k returns or raises
\* (converter.py, lines 161-183)
ThreadInvoked(k) ==
    /\ threads[k].pc = "invoke"
    /\ threads' = [threads EXCEPT ![k].pc = "converting"]
    /\ UNCHANGED processing
    /\ ThreadsFrame

PressStart == \E n \in 1..MaxFiles : StartProcessing(n)

ThreadStep ==
    \E k \in 1..Len(threads) :
        \/ \E skip \in BOOLEAN : ProcessFiles(k, skip)
        \/ \E setup_ok \in BOOLEAN, m \in 0..MaxDocImages :
               ProcessFileEnter(k, setup_ok, m)
        \/ ThreadConvert(k)
        \/ ThreadInvoked(k)

NextThreads == PressStart \/ CancelProcessing \/ ThreadStep

SpecThreads == InitBatch /\ [][NextThreads]_vars

(***************************************************************************)
(* The logo filter applied to any decoded image, on its own and as part of *)
(* one analyze_image call.                                                 *)
(***************************************************************************)
\* sizes and statistics on both sides of each threshold of lines 205-210
FilterWidths == {80, 100, 120, 299, 300, 800}
FilterHeights == {100, 299, 300, 600}
FilterBrightness == {120, 200, 201, 255}
FilterDeviation == {5, 59, 60, 80}

FilterInputs ==
    {ImageData("image", TRUE, TRUE, w, h, a, v) :
         w \in FilterWidths, h \in FilterHeights,
         a \in FilterBrightness, v \in FilterDeviation}
    \cup {ImageData("truncated", TRUE, FALSE, w, h, 0, 0) :
              w \in FilterWidths, h \in FilterHeights}
    \cup {ImageData("corrupt", FALSE, FALSE, 0, 0, 0, 0)}

InitFilter ==
    /\ InitWait
    /\ InitLog(FALSE)
    /\ InitGui
    /\ lf_pc = "idle"
    /\ lf_image \in FilterInputs
    /\ lf_result = FALSE
    /\ lf_log = <<>>
    /\ clock = 0
    /\ max_requests = ConverterMaxRequests
    /\ time_window = ConverterTimeWindow
    /\ requests = <<>>
    /\ last_request_time = None
    /\ returns = <<>>
    /\ rl_sleeps = <<0, 0>>
    /\ InitCache
    /\ InitAnalyze
    /\ calls = 0
    /\ cfg_retries = DefaultRetries
    /\ cfg_base_delay = DefaultBaseDelay
    /\ InitConvert

\* _is_edhec_logo(image), lines 190-216, for an image that line 137 decoded
FilterCall ==
    /\ lf_pc = "idle"
    /\ lf_image.decodable
    /\ lf_pc' = "returned"
    /\ lf_result' = IsEdhecLogo(lf_image)
    /\ lf_log' = LogoFilterLog(lf_image)
    /\ UNCHANGED <<lf_image, cfg_retries, cfg_base_delay, waitVars, logVars,
                   guiVars>>
    /\ UNCHANGED <<rlVars, cacheVars, anVars, calls, cvVars>>

\* analyze_image is called once with the bytes of the image
FilterAnalyze ==
    /\ calls = 0
    /\ calls' = 1
    /\ AnalyzeBegin(lf_image, cfg_retries, cfg_base_delay)
    /\ UNCHANGED <<cfgVars, cvVars>>

NextFilter == FilterCall \/ FilterAnalyze \/ AnalyzeWait \/ Invoke \/ Return

SpecFilter == InitFilter /\ [][NextFilter]_vars

(***************************************************************************)
(* Claims about the RateLimiter (checked under SpecRL).                    *)
(***************************************************************************)
\* C1: no more than max_requests calls return within any interval of
\* time_window seconds, measured on the times the calls return: the return
\* that follows max_requests returns comes no earlier than time_window seconds
\* after the first of them.
C1_WindowCapOnReturns ==
    \A i \in 1..Len(returns) :
        i + max_requests <= Len(returns) =>
            returns[i + max_requests] - returns[i] >= time_window

\* C2: a call returns no earlier than min_delay after the last_request_time
\* the call before it recorded, so k calls take at least (k-1)*min_delay.
C2_MinDelayBetweenReturns ==
    /\ \A i \in 1..Len(returns) - 1 : returns[i + 1] >= returns[i] + min_delay
    /\ \A i, j \in 1..Len(returns) :
           i < j => returns[j] - returns[i] >= (j - i) * min_delay
    /\ last_request_time # None =>
           last_request_time = returns[Len(returns)]

\* three calls in immediate succession, the minimum-delay sleep taken twice
C2_Witness ==
    /\ Len(returns) >= 3
    /\ returns[3] - returns[1] = 2 * min_delay
    /\ rl_sleeps[1] = min_delay

\* C22: the timestamp the last wait_if_needed call appended to the window is
\* the time at which that call returned, the value it stored in
\* last_request_time.
C22_AppendedTimestampFresh ==
    returns # <<>> =>
        /\ requests[Len(requests)] = returns[Len(returns)]
        /\ requests[Len(requests)] = last_request_time

\* the timestamps of the window that are younger than time_window seconds now
Younger == {i \in 1..Len(requests) : clock - requests[i] < time_window}

\* C24: once a wait_if_needed call has returned, at that moment and at every
\* later one, at most max_requests of the timestamps the window holds are
\* younger than time_window seconds.
C24_AtMostNYoungerThanW ==
    returns # <<>> => Cardinality(Younger) <= max_requests

(***************************************************************************)
(* Claims about the cache and analyze_image (checked under SpecAnalyze).   *)
(***************************************************************************)
an_hash == get_image_hash(an_img)

RECURSIVE SumSeq(_)
SumSeq(q) == IF q = <<>> THEN 0 ELSE Head(q) + SumSeq(Tail(q))

MinOf(a, b) == IF a < b THEN a ELSE b

\* C3: the number of entries of the image cache never exceeds cache_size.
C3_CacheWithinCapacity == Len(cache) <= cache_size

\* C4: the cache holds exactly the cache_size most recently inserted entries,
\* in their insertion order: storing one entry more than the capacity evicts
\* the single oldest one, whatever lookups were made in between.
C4_KeepsMostRecentlyInserted ==
    LET n == Len(stored)
        m == MinOf(n, cache_size)
    IN  /\ Len(cache) = m
        /\ \A i \in 1..Len(cache) : cache[i].k = stored[n - m + i]

\* C5: when the cache holds an entry for the image's hash, analyze_image
\* returns that entry, calls neither the rate limiter nor the external service
\* and changes nothing; a call that follows a call with the same bytes that
\* returned a description is answered from the cache with that description.
C5_CacheHitNoExternalCall ==
    an_pc # "idle" =>
        /\ CacheHas(an_hist.cache0, an_hash) =>
               /\ an_pc = "done"
               /\ an_hist.path = "hit"
               /\ an_result = CacheGet(an_hist.cache0, an_hash)
               /\ an_hist.waits = 0
               /\ an_hist.invokes = 0
               /\ Len(returns) = an_hist.rl0
               /\ clock = an_hist.clock0
               /\ cache = an_hist.cache0
        /\ (prev_call.img = an_img /\ prev_call.path \in {"ok", "hit"}) =>
               /\ an_hist.path = "hit"
               /\ an_result = prev_call.result
               /\ an_hist.invokes = 0

\* the second of two calls with the same bytes is answered from the cache
C5_Witness ==
    /\ an_pc = "done"
    /\ an_hist.path = "hit"
    /\ prev_call.img = an_img
    /\ prev_call.path = "ok"
    /\ Truthy(an_result)

\* C6: when every attempt fails the call returns the error result, the cache
\* is left as it was and holds no entry for the image's hash; the next call
\* with the same bytes is not answered from the cache: it makes fresh attempts.
C6_FailureNotCached ==
    /\ (an_pc = "done" /\ an_hist.path = "failed") =>
           /\ an_result = ErrorResult(an_retries,
                                      an_hist.errors[Len(an_hist.errors)])
           /\ Len(an_hist.errors) = an_hist.invokes
           /\ cache = an_hist.cache0
           /\ ~CacheHas(cache, an_hash)
    /\ (an_pc # "idle" /\ prev_call.img = an_img /\ prev_call.path = "failed") =>
           /\ an_hist.path \in {"", "ok", "failed"}
           /\ an_pc = "done" => an_hist.invokes >= 1

\* an image whose analysis failed is analysed again, and this time it succeeds
C6_Witness ==
    /\ an_pc = "done"
    /\ an_hist.path = "ok"
    /\ prev_call.img = an_img
    /\ prev_call.path = "failed"
    /\ CacheHas(cache, an_hash)

\* C7: within one call every external invocation is preceded by exactly one
\* wait_if_needed made for that attempt, there are at most retries
\* invocations, exactly retries when every attempt fails, and none after the
\* first successful one.
C7_OneWaitPerInvocation ==
    an_pc # "idle" =>
        /\ an_hist.invokes <= an_retries
        /\ an_hist.waits = an_hist.invokes + (IF an_pc = "invoke" THEN 1 ELSE 0)
        /\ Len(returns) = an_hist.rl0 + an_hist.waits
        /\ an_hist.path = "failed" => an_hist.invokes = an_retries
        /\ an_hist.invokes =
               Len(an_hist.errors) + (IF an_hist.path = "ok" THEN 1 ELSE 0)
        /\ an_hist.path = "ok" => an_pc = "done"
        /\ an_pc \in {"attempt", "invoke"} => an_hist.invokes = an_attempt

\* a call that succeeds at its second attempt
C7_Witness ==
    /\ an_pc = "done"
    /\ an_hist.path = "ok"
    /\ an_hist.invokes = 2
    /\ an_hist.waits = 2

\* C8: after the failure of attempt k < retries the call sleeps
\* base_delay * 2^(k-1) seconds, whatever the error, and it does not sleep
\* after the failure of the last attempt; two failures and then a success with
\* retries = 3 return the description after sleeping at least 3 * base_delay.
C8_ExponentialBackoff ==
    an_pc # "idle" =>
        /\ Len(an_hist.sleeps) = MinOf(Len(an_hist.errors), an_retries - 1)
        /\ \A k \in 1..Len(an_hist.sleeps) :
               an_hist.sleeps[k] = an_base_delay * (2 ^ (k - 1))
        /\ clock - an_hist.clock0 >= SumSeq(an_hist.sleeps)
        /\ (an_hist.path = "ok" /\ Len(an_hist.errors) = 2 /\ an_retries = 3) =>
               /\ Truthy(an_result)
               /\ an_result.s[1] # "Error: "
               /\ clock - an_hist.clock0 >= an_base_delay * (1 + 2)

\* two rate-limit errors and then a success, with retries = 3
C8_Witness ==
    /\ an_pc = "done"
    /\ an_hist.path = "ok"
    /\ an_hist.errors = <<"429", "429">>
    /\ an_retries = 3
    /\ an_hist.sleeps = <<an_base_delay, 2 * an_base_delay>>

Eligible ==
    /\ an_hash \notin CacheKeys(an_hist.cache0)
    /\ an_img.decodable
    /\ ~IsEdhecLogo(an_img)

\* the current call has made no attempt: no call of the rate limiter, none of
\* the external service, no backoff sleep, and no time has passed
NoAttempt ==
    /\ an_attempt = 0
    /\ an_hist.waits = 0
    /\ an_hist.invokes = 0
    /\ an_hist.sleeps = <<>>
    /\ Len(returns) = an_hist.rl0
    /\ clock = an_hist.clock0

\* C21: analyze_image calls the rate limiter and the external service only
\* for an image that is not in the cache, that decodes and that is not
\* classified decorative, and for such an image it returns only after an
\* invocation; bytes that do not decode give the error string (Failed) with
\* no attempt made, and a decorative image gives None (Skipped) with no
\* attempt made.
C21_AttemptsOnlyWhenEligible ==
    an_pc # "idle" =>
        /\ ~Eligible => (an_pc = "done" /\ NoAttempt)
        /\ (Eligible /\ an_pc = "done") =>
               (an_hist.invokes >= 1 /\ an_hist.path \in {"ok", "failed"})
        /\ (an_hash \notin CacheKeys(an_hist.cache0) /\ ~an_img.decodable) =>
               /\ an_hist.path = "decode_error"
               /\ an_result = ErrorResult(an_retries, "cannot identify image file")
               /\ an_result.s[1] = "Error: "
               /\ cache = an_hist.cache0
        /\ (an_hash \notin CacheKeys(an_hist.cache0) /\ an_img.decodable
               /\ IsEdhecLogo(an_img)) =>
               /\ an_hist.path = "logo"
               /\ an_result = PyNone

\* after an image was analysed and a decorative one skipped, bytes that do
\* not decode are passed and the call ends Failed
C21_Witness ==
    /\ an_pc = "done"
    /\ an_hist.path = "decode_error"
    /\ prev_call.path = "logo"
    /\ an_hist.rl0 >= 1
    /\ cache # <<>>

(***************************************************************************)
(* Claims about convert_pdf (checked under SpecConvert).                   *)
(***************************************************************************)
Segments == {output_text[i] : i \in 1..Len(output_text)}

SegmentsOf(p) == {g \in Segments : g.page = p}

\* the page is behind the loop: its iteration has ended
PageDone(p) == p < page_num \/ (p = page_num /\ cv_pc \in {"next_page", "write",
                                                            "returned"})

Analyzable(d) == d.decodable /\ ~IsEdhecLogo(d)

\* C11 as stated: a page whose text extraction failed and which carries an
\* image that is neither decorative nor undecodable has, once its iteration
\* has ended, its header, its error segment and an image-analysis segment in
\* the transcript; a page whose only image is decorative has its header and
\* its text and no image-analysis segment; the conversion returns True.
C11_TextFailureKeepsHeaderAndImages ==
    /\ \A r \in cv_hist.pages :
           (/\ PageDone(r.page)
            /\ r.failure = "text"
            /\ \E i \in 1..Len(r.images) : Analyzable(r.images[i])) =>
               /\ PageHeader(r.page) \in Segments
               /\ PageError(r.page) \in Segments
               /\ \E g \in SegmentsOf(r.page) : g.kind = "image_analysis"
    /\ \A r \in cv_hist.pages :
           (/\ PageDone(r.page)
            /\ r.failure = ""
            /\ Len(r.images) = 1
            /\ IsEdhecLogo(r.images[1])) =>
               /\ PageHeader(r.page) \in Segments
               /\ PageText(r.page) \in Segments
               /\ ~\E g \in SegmentsOf(r.page) : g.kind = "image_analysis"
    /\ (cv_pc = "returned" /\ cv_hist.doc_failure = "") => cv_result = TRUE

\* C11, amended: a page whose text extraction failed has its error segment
\* and nothing else in the transcript, neither its header nor a segment for
\* any image it carries, and none of its images is analysed; a page whose
\* only image is decorative has its header, its text, the header of its
\* images and its separator, and no image-analysis segment; the conversion
\* returns True unless something outside the page loop's handler failed.
C11_TextFailureLeavesOnlyError ==
    /\ \A r \in cv_hist.pages :
           (PageDone(r.page) /\ r.failure = "text") =>
               /\ SegmentsOf(r.page) = {PageError(r.page)}
               /\ ~\E a \in cv_hist.analysed : a.page = r.page
    /\ \A r \in cv_hist.pages :
           (/\ PageDone(r.page)
            /\ r.failure = ""
            /\ Len(r.images) = 1
            /\ r.images[1].decodable
            /\ IsEdhecLogo(r.images[1])
            /\ <<r.page, 1>> \notin cv_hist.extract_failed) =>
               SegmentsOf(r.page) = {PageHeader(r.page), PageText(r.page),
                                     ImagesHeader(r.page), PageSeparator(r.page)}
    /\ (cv_pc = "returned" /\ cv_hist.doc_failure = "") => cv_result = TRUE

\* a document of two pages is converted: the only image of the first page is
\* decorative, the text extraction of the second page, which carries a chart,
\* fails
C11_Witness ==
    /\ cv_pc = "returned"
    /\ cv_result = TRUE
    /\ total_pages = 2
    /\ \E r \in cv_hist.pages :
           /\ r.page = 1 /\ r.failure = ""
           /\ Len(r.images) = 1 /\ IsEdhecLogo(r.images[1])
    /\ \E r \in cv_hist.pages :
           /\ r.page = 2 /\ r.failure = "text"
           /\ Len(r.images) = 1 /\ Analyzable(r.images[1])
    /\ \E a \in cv_hist.analysed : a.page = 1 /\ a.path = "logo"

\* the segments of image i of page p in the transcript
SegmentsOfImage(p, i) == {g \in Segments : g.page = p /\ g.img = i}

Failed(a) == a.path \in {"failed", "decode_error"}

\* C12 as stated: an image whose analysis ended Failed has the error segment
\* of line 258 in the transcript and no image-analysis segment.
C12_FailedAnalysisGetsErrorSegment ==
    \A a \in cv_hist.analysed :
        Failed(a) =>
            /\ ImageError(a.page, a.img) \in Segments
            /\ ~\E g \in SegmentsOfImage(a.page, a.img) :
                   g.kind = "image_analysis"

\* C12, amended: an image whose analysis ended Failed (its bytes do not
\* decode, or the retries are exhausted) has in the transcript the
\* image-analysis segment of line 253 whose body is the error string
\* "Error: Failed to analyze image ...", and not the error segment of line
\* 258; an image whose analysis returned a description has the image-analysis
\* segment with that description; a skipped image has no segment; and the
\* loop goes on: every image of a page whose iteration ended without raising
\* was either analysed or got the error segment of its failed extraction.
C12_FailedAnalysisIsAnalysisSegment ==
    /\ \A a \in cv_hist.analysed :
           /\ Failed(a) =>
                  /\ a.result = ErrorResult(DefaultRetries, a.result.s[5])
                  /\ SegmentsOfImage(a.page, a.img) =
                         {ImageAnalysis(a.page, a.img, a.result)}
           /\ a.path \in {"ok", "hit"} =>
                  /\ a.result.s[1] # "Error: "
                  /\ SegmentsOfImage(a.page, a.img) =
                         {ImageAnalysis(a.page, a.img, a.result)}
           /\ a.path = "logo" => SegmentsOfImage(a.page, a.img) = {}
    /\ \A r \in cv_hist.pages :
           (PageDone(r.page) /\ r.failure = "") =>
               \A i \in 1..Len(r.images) :
                   \/ /\ <<r.page, i>> \in cv_hist.extract_failed
                      /\ SegmentsOfImage(r.page, i) = {ImageError(r.page, i)}
                   \/ \E a \in cv_hist.analysed :
                          /\ a.page = r.page /\ a.img = i
                          /\ a.bytes = r.images[i].bytes

\* the analysis of the first image of a page fails and the second image is
\* analysed and described
C12_Witness ==
    \E a, b \in cv_hist.analysed :
        /\ a.page = b.page /\ a.img = 1 /\ b.img = 2
        /\ a.path = "failed" /\ b.path = "ok"
        /\ PageDone(a.page)

\* C13: when os.path.exists is false or fitz.open raises, convert_pdf returns
\* False having processed no page, made no call of the rate limiter or of the
\* external service, touched no cache entry and left the file at output_path
\* as it was: absent, or with its old content.
C13_OpenFailureWritesNothing ==
    (cv_pc = "returned" /\ cv_hist.doc_failure \in {"not_found", "open"}) =>
        /\ cv_result = FALSE
        /\ file = cv_hist.file0
        /\ output_text = <<>>
        /\ page_num = 0
        /\ cv_hist.visited = <<>>
        /\ cv_hist.pages = {}
        /\ cv_hist.analysed = {}
        /\ returns = <<>>
        /\ cache = <<>>
        /\ an_pc = "idle"

\* fitz.open raises while a file of an earlier run is at output_path
C13_Witness ==
    /\ cv_pc = "returned"
    /\ cv_hist.doc_failure = "open"
    /\ cv_hist.file0 = OldFile
    /\ file = OldFile

FileSegments == {file[i] : i \in 1..Len(file)}

\* C14: when convert_pdf has returned True, the file written holds a segment
\* for every failure that happened: the error segment of each page that
\* raised, the error segment of each image whose extraction raised, and a
\* segment with the error string for each image whose analysis ended Failed;
\* and whatever failed outside the page loop's handler (the opening, the
\* page iterator, the writing) made it return False.
C14_NoSilentFailure ==
    /\ (cv_pc = "returned" /\ cv_result) =>
           /\ cv_hist.doc_failure = ""
           /\ file = output_text
           /\ \A r \in cv_hist.pages :
                  r.failure # "" => PageError(r.page) \in FileSegments
           /\ \A x \in cv_hist.extract_failed :
                  ImageError(x[1], x[2]) \in FileSegments
           /\ \A a \in cv_hist.analysed :
                  Failed(a) =>
                      \E g \in FileSegments :
                          /\ g.page = a.page /\ g.img = a.img
                          /\ g.body.py = "str"
                          /\ Len(g.body.s) > 1
                          /\ g.body.s[1] = "Error: "
    /\ (cv_pc = "returned" /\ cv_hist.doc_failure # "") => cv_result = FALSE

\* the conversion returns True after an extraction, an analysis and a page
\* have failed
C14_Witness ==
    /\ cv_pc = "returned"
    /\ cv_result = TRUE
    /\ cv_hist.extract_failed # {}
    /\ \E a \in cv_hist.analysed : Failed(a)
    /\ \E r \in cv_hist.pages : r.failure # ""

\* the place of a segment within its page
Rank(g) ==
    CASE g.kind = "page_header"   -> 1
      [] g.kind = "text"          -> 2
      [] g.kind = "images_header" -> 3
      [] g.kind \in {"image_analysis", "image_error"} -> 4
      [] g.kind = "separator"     -> 5
      [] g.kind = "page_error"    -> 6

\* segment a has its place before segment b: it is of an earlier page, or of
\* the same page and of an earlier place in it, or both are blocks of images
\* of that page and the image of a comes first
Before(a, b) ==
    \/ a.page < b.page
    \/ /\ a.page = b.page
       /\ \/ Rank(a) < Rank(b)
          \/ Rank(a) = 4 /\ Rank(b) = 4 /\ a.img < b.img

\* the segments are in the order of the pages and, within a page, the header,
\* the text, the blocks of the images in the order of the images, and what
\* closes the page: each segment has its place before the one that follows
\* it, and so, Before being transitive, before all those that follow it
Ordered ==
    \A i \in 1..Len(output_text) - 1 :
        Before(output_text[i], output_text[i + 1])

\* every image-analysis block is the recorded result of the analysis of the
\* image that has its number on its page
BlocksAreResults ==
    \A g \in Segments :
        g.kind = "image_analysis" =>
            \E a \in cv_hist.analysed, r \in cv_hist.pages :
                /\ a.page = g.page /\ a.img = g.img /\ a.result = g.body
                /\ r.page = g.page /\ a.bytes = r.images[g.img].bytes

\* one result at most is recorded for a page and an image
OneResultEach ==
    \A a, b \in cv_hist.analysed : (a.page = b.page /\ a.img = b.img) => a = b

\* a step only appends to the transcript
AppendOnly ==
    /\ Len(output_text') >= Len(output_text)
    /\ SubSeq(output_text', 1, Len(output_text)) = output_text

\* a step that begins an analysis begins it for a page and an image that come
\* after every one for which a result, or a failed extraction, is recorded
NotRetried ==
    (an_pc = "idle" /\ an_pc' # "idle") =>
        \A x \in {<<a.page, a.img>> : a \in cv_hist.analysed}
                 \cup cv_hist.extract_failed :
            \/ x[1] < page_num'
            \/ x[1] = page_num' /\ x[2] < img_idx'

\* C25: the transcript is only appended to and is ordered: the segments of a
\* page come before those of the pages after it, and within a page the header
\* comes before the text and the text before the blocks of the images, which
\* are in the order of the images; an image of a page is analysed once at
\* most, and never again once its result is recorded.
C25_TranscriptAppendOnlyOrdered ==
    /\ [](Ordered /\ BlocksAreResults /\ OneResultEach)
    /\ [][AppendOnly /\ NotRetried]_vars

\* a document of two pages is converted, the two images of its first page
\* are analysed and both have their block in the transcript
C25_Witness ==
    /\ cv_pc = "returned"
    /\ cv_result = TRUE
    /\ total_pages = 2
    /\ \E g, h \in Segments :
           /\ g.kind = "image_analysis" /\ g.page = 1 /\ g.img = 1
           /\ h.kind = "image_analysis" /\ h.page = 1 /\ h.img = 2
    /\ PageText(2) \in Segments
    /\ file = output_text

\* convert_pdf is where its code can be, and has not raised to its caller
NotRaised ==
    cv_pc \in {"idle", "next_page", "page", "next_image", "analyzing", "write",
               "returned"}

\* what convert_pdf has returned: True when nothing failed outside the page
\* loop's handler, with every page processed and the transcript in the file;
\* False when the file was not found, the opening, the page iterator or the
\* writing (the creation of the directory included) failed
ReturnedValue ==
    cv_pc = "returned" =>
        /\ cv_result \in BOOLEAN
        /\ cv_result = TRUE =>
               /\ cv_hist.doc_failure = ""
               /\ page_num = total_pages
               /\ cv_hist.visited = [i \in 1..total_pages |-> i]
               /\ \A p \in 1..total_pages :
                      \E r \in cv_hist.pages : r.page = p
               /\ an_pc = "idle"
               /\ file = output_text
        /\ cv_result = FALSE =>
               cv_hist.doc_failure \in {"not_found", "open", "load_page", "write"}
        /\ cv_hist.doc_failure # "" => cv_result = FALSE

\* the file at output_path is what it was before the call until the whole
\* transcript is written to it, when the loop over the pages has ended, and
\* True is returned
WrittenOnce ==
    file # cv_hist.file0 =>
        /\ cv_pc = "returned"
        /\ cv_result = TRUE
        /\ page_num = total_pages
        /\ file = output_text

\* C27: convert_pdf never raises to its caller, whatever fails: it returns
\* True only when the transcript has been written to output_path once, after
\* all the pages were processed, and returns False otherwise.
C27_ReturnsTrueOnlyWhenWritten ==
    /\ NotRaised
    /\ ReturnedValue
    /\ WrittenOnce

\* the writing fails after both pages were processed, one of them with a
\* failure, and convert_pdf has returned False
C27_Witness ==
    /\ cv_pc = "returned"
    /\ cv_result = FALSE
    /\ cv_hist.doc_failure = "write"
    /\ total_pages = 2
    /\ page_num = 2
    /\ cv_hist.failed_pages # {}
    /\ cv_hist.analysed # {}
    /\ file = cv_hist.file0

(***************************************************************************)
(* Claims about the logo filter (checked under SpecFilter).                *)
(***************************************************************************)
\* C18: for an image whose statistics are computed, _is_edhec_logo returns
\* True exactly when 0.8 < width/height < 1.2 (that is 4*height < 5*width and
\* 5*width < 6*height), the mean brightness is above 200, the standard
\* deviation below 60 and width and height both below 300, all strictly:
\* 100x100 with brightness 255 and deviation 5 is a logo, 800x600 with
\* brightness 120 and deviation 80 is not.
C18_LogoExactlyWhenAllHold ==
    (lf_pc = "returned" /\ lf_image.stats_ok) =>
        LET w == lf_image.width
            h == lf_image.height
            a == lf_image.avg_brightness
            v == lf_image.std_brightness
        IN  /\ lf_result = TRUE <=>
                   /\ 4 * h < 5 * w /\ 5 * w < 6 * h
                   /\ a > 200 /\ v < 60
                   /\ w < 300 /\ h < 300
            /\ (w = 100 /\ h = 100 /\ a = 255 /\ v = 5) => lf_result = TRUE
            /\ (w = 800 /\ h = 600 /\ a = 120 /\ v = 80) => lf_result = FALSE
            /\ (5 * w = 4 * h \/ 5 * w = 6 * h \/ a = 200 \/ v = 60
                   \/ w = 300 \/ h = 300) => lf_result = FALSE

\* an image of ratio exactly 0.8, bright, uniform and small, is not a logo
C18_Witness ==
    /\ lf_pc = "returned"
    /\ lf_image.stats_ok
    /\ lf_image.width = 80 /\ lf_image.height = 100
    /\ lf_image.avg_brightness = 255 /\ lf_image.std_brightness = 5
    /\ lf_result = FALSE

\* the first record the current analyze_image call passed to self.log
FirstLogLevel == IF an_hist.log = <<>> THEN "" ELSE an_hist.log[1][1]

\* the current analyze_image call has gone on to the analysis of the image
GoesOnToAnalysis ==
    /\ an_hist.path \notin {"logo", "decode_error", "hit"}
    /\ an_pc = "done" => an_hist.invokes >= 1

\* C19 as stated: an image that cannot be decoded, or whose statistics cannot
\* be computed, is not treated as a logo, the failure is logged as a warning
\* and not as an error, and the image goes on to the analysis.
C19_UndecodableGoesOnToAnalysis ==
    (an_pc # "idle" /\ (~an_img.decodable \/ ~an_img.stats_ok)) =>
        /\ FirstLogLevel = "WARNING"
        /\ GoesOnToAnalysis

\* C19, amended: when the filter itself fails on a decoded image (the
\* conversion to grayscale or the computation of the statistics raises),
\* _is_edhec_logo returns False and logs one warning and no error, and
\* analyze_image goes on to the analysis of the image; bytes that line 137
\* cannot decode never reach the filter: analyze_image logs an error and
\* returns the error string without any call of the external service.
C19_FilterFailsOpen ==
    /\ (lf_pc = "returned" /\ ~lf_image.stats_ok) =>
           /\ lf_result = FALSE
           /\ lf_log = <<<<"WARNING", "Error in logo detection">>>>
    /\ (an_pc # "idle" /\ an_img.decodable /\ ~an_img.stats_ok) =>
           /\ FirstLogLevel = "WARNING"
           /\ GoesOnToAnalysis
    /\ (an_pc # "idle" /\ ~an_img.decodable) =>
           /\ an_pc = "done"
           /\ an_hist.path = "decode_error"
           /\ an_hist.log = <<<<"ERROR", "Failed to analyze image">>>>
           /\ an_hist.invokes = 0
           /\ an_result = ErrorResult(an_retries, "cannot identify image file")

\* the statistics of an image cannot be computed, the filter returned False
\* and the image has been analysed and described
C19_Witness ==
    /\ lf_pc = "returned"
    /\ ~lf_image.stats_ok
    /\ lf_result = FALSE
    /\ an_pc = "done"
    /\ an_img = lf_image
    /\ an_hist.path = "ok"
    /\ an_hist.invokes = 1

(***************************************************************************)
(* Claims about wait_if_needed run line by line (checked under SpecWait).  *)
(***************************************************************************)
\* the current call has slept at most once for each of its two reasons
SleepsAtMostOnceEach ==
    /\ Len(w_sleeps) <= 2
    /\ \A i, j \in 1..Len(w_sleeps) : i < j =>
           (w_sleeps[i][1] = "min_delay" /\ w_sleeps[j][1] = "window")
    /\ \A i \in 1..Len(w_sleeps) : w_sleeps[i][2] > 0

\* the call that has just returned has recorded its request
RequestRecorded ==
    (w_pc = "idle" /\ returns # <<>>) =>
        /\ requests # <<>>
        /\ requests[Len(requests)] = w_now
        /\ last_request_time = returns[Len(returns)]
        /\ Len(requests) <= Len(returns)

\* C20: a wait_if_needed call never raises, sleeps at most once for the
\* minimum delay and then at most once for the window, and, the thread that
\* runs it going on, returns with its request recorded.
C20_WaitTerminates ==
    /\ [](w_pc # "raised" /\ SleepsAtMostOnceEach /\ RequestRecorded)
    /\ (w_pc # "idle") ~> (w_pc = "idle")

\* a call that slept for the minimum delay and for the window has returned
C20_Witness ==
    /\ w_pc = "idle"
    /\ Len(w_sleeps) = 2
    /\ Len(returns) >= 2

\* C23: when max_requests or more timestamps remain after the pruning, the
\* call passes to time.sleep exactly the time that remains, at that moment,
\* until the oldest timestamp leaves the window, and it does not sleep when
\* that timestamp has left it already or when fewer remain, also in a call
\* that has slept for the minimum delay before.
C23_WindowSleepIsTimeRemaining ==
    [][(w_pc = "window" /\ w_pc' = "record") =>
           w_sleeps' =
               IF /\ Len(requests) >= max_requests
                  /\ Head(requests) + time_window - clock > 0
                   THEN Append(w_sleeps,
                               <<"window", Head(requests) + time_window - clock>>)
                   ELSE w_sleeps]_vars

(***************************************************************************)
(* Claims about PDFConverter.log (checked under SpecLogged).               *)
(***************************************************************************)
\* C17: whichever of its sinks raise, the logger at line 113 or 123 or the
\* callback at line 121, a log call never raises to its caller, and from its
\* first line to its return the transcript, the cache, the rate limiter and
\* the position of the conversion are what they were when it was called: the
\* conversion goes on from the same state.
C17_LogNeverPropagates ==
    /\ log_pc # "raised"
    /\ log_pc # "idle" => ConverterState = log_hist.state0
    /\ log_hist.failures \subseteq {"logger", "callback", "inner"}

\* a conversion has returned True, with an analysis in its transcript, after
\* the logger, the callback and the logger inside the callback's handler
\* have raised
C17_Witness ==
    /\ cv_pc = "returned"
    /\ cv_result = TRUE
    /\ log_pc = "idle"
    /\ log_hist.failures = {"logger", "callback", "inner"}
    /\ \E g \in FileSegments : g.kind = "image_analysis"

(***************************************************************************)
(* Claims about the GUI's batch (checked under SpecBatch).                 *)
(***************************************************************************)
\* the images of the current document whose iteration has begun
ImagesStarted ==
    Cardinality(cv_hist.analysed) + Cardinality(cv_hist.extract_failed)
        + (IF cv_pc = "analyzing" THEN 1 ELSE 0)

\* C15: after Cancel was pressed while a conversion was running, that
\* conversion starts no further page and no further image and makes no
\* further call of the rate limiter and of the external service.
C15_CancelStopsConversion ==
    LET c == gui_hist.cancel
    IN  (c # NoCancel /\ t_pc = "converting" /\ file_i = c.file) =>
            /\ page_num = c.page
            /\ ImagesStarted = c.img
            /\ Len(returns) = c.waits

\* C16: the first request for a file comes no earlier than min_delay after
\* the last request for the files before it, and an image that was described
\* for one of those files is answered from the cache.
C16_LimiterAndCacheOutliveDocument ==
    /\ (gui_hist.last_request # None /\ returns # <<>>) =>
           returns[1] >= gui_hist.last_request + min_delay
    /\ (an_pc # "idle" /\ an_hash \in gui_hist.described) =>
           an_hist.path = "hit"

(***************************************************************************)
(* Claims about the threads of the GUI (checked under SpecThreads).        *)
(***************************************************************************)
\* the threads that are inside convert_pdf, and those of them that are inside
\* a call of the external service
Converting ==
    {k \in 1..Len(threads) : threads[k].pc \in {"converting", "invoke"}}
Invoking == {k \in 1..Len(threads) : threads[k].pc = "invoke"}

\* C26: however Start Processing, Cancel and the steps of the threads
\* interleave, one thread at most is inside convert_pdf, and so one call of
\* the external service at most is under way.
C26_OneWorkerConverting ==
    /\ Cardinality(Converting) <= 1
    /\ Cardinality(Invoking) <= 1

====
